---- MODULE Spec2Model ----
(***************************************************************************)
(* Model of the "Infinite Zoom" tool: the orchestrating page (Index), the  *)
(* frame extractor (VideoFrameExtractor) and the viewer                    *)
(* (InfiniteZoomViewer).                                                   *)
(*                                                                         *)
(* Numbers.  JavaScript numbers that can leave the integers are modelled   *)
(* exactly: times and percentages are fractions [num, den] (den = 0 is a   *)
(* non-finite value: 0/0 is NaN, k/0 with k > 0 is Infinity); the zoom     *)
(* level is counted in tenths (the zoom slider's step); the frame index    *)
(* is an integer or the value NaN.                                         *)
(*                                                                         *)
(* Steps.  One action is one task of the event loop: an event handler or   *)
(* the continuation of an await, run to its next await or to its end,      *)
(* together with the re-render and the effects it triggers.  Toasts and    *)
(* console output are not modelled.  Both components keep their state      *)
(* while the other tab is shown; a component takes user input only while   *)
(* its own tab is the active one.                                          *)
(***************************************************************************)
EXTENDS Integers, Sequences, FiniteSets, TLC

\* ------------------------------------------------------------------ bounds
\* Number of frames sampled per extraction.  The source sets 100; the model
\* scales it down (every operation below is written for any FRAME_SIZE >= 1).
FRAME_SIZE == 3
\* Pointer positions are drawn from the points (a, MaxCoord - a), a in
\* 0..MaxCoord.
MaxCoord == 1
\* The pan offset is followed while both coordinates stay within
\* -MaxPan..MaxPan.
MaxPan == 1
\* object URLs are counted up to this number
MaxURLs == 1

\* --------------------------------------------------------------- constants
maxDimension == 800
SliderMin == 5
SliderMax == 50
InitialZoom == 10
NaN == -1000000

\* ------------------------------------------------------------- arithmetic
Rat(n, d) == [num |-> n, den |-> d]
RatIsFinite(r) == r.den # 0
RatDivInt(r, n) == Rat(r.num, r.den * n)
IntMulRat(k, r) == Rat(k * r.num, r.den)
Zero == Rat(0, 1)

JsAdd(a, b) == IF a = NaN \/ b = NaN THEN NaN ELSE a + b
JsMod(a, b) ==
  IF a = NaN \/ b = NaN \/ b = 0 THEN NaN
  ELSE IF a >= 0 THEN a % b ELSE 0 - ((0 - a) % b)
JsMin(a, b) == IF a = NaN \/ b = NaN THEN NaN ELSE IF a < b THEN a ELSE b
JsMax(a, b) == IF a = NaN \/ b = NaN THEN NaN ELSE IF a > b THEN a ELSE b

\* ------------------------------------------------------------ environment
\* The files the user can pick, and what the platform reports for each.
NoFile == "none"
Files == {"clip", "tall", "empty", "live", "broken", "notes"}

FileType(f) == IF f = "notes" THEN <<"text", "plain">> ELSE <<"video", "mp4">>
\* whether the media element fires loadedmetadata (TRUE) or error (FALSE)
Loads(f) == f # "broken"
\* video.duration once the metadata is loaded
Duration(f) ==
  CASE f = "clip"  -> Rat(10, 1)
    [] f = "tall"  -> Rat(7, 1)
    [] f = "empty" -> Rat(0, 1)
    [] f = "live"  -> Rat(1, 0)
    [] OTHER       -> Rat(0, 0)
VideoWidth(f) == CASE f = "clip" -> 1920 [] f = "tall" -> 720 [] OTHER -> 640
VideoHeight(f) == CASE f = "clip" -> 1080 [] f = "tall" -> 1280 [] OTHER -> 640

Coords == 0..MaxCoord
Points == {[x |-> a, y |-> MaxCoord - a] : a \in Coords}
Origin == [x |-> 0, y |-> 0]
ZoomStops == {SliderMin, SliderMax}
WheelDeltas == {-1, 0, 1}
Keys == {"ArrowLeft", "ArrowRight", " ", "r"}
Tabs == {"extract", "viewer"}

\* ------------------------------------------------------------------ state
VARIABLES
  extractedFrames, activeTab,
  isExtracting, progress, videoFile,
  pc, i, extractorFrames, video, canvas, objectURLs,
  seekLog, reports, callbackCalls, outcome,
  frames, currentFrameIndex, isAutoPlaying, zoomLevel, panPosition,
  isDragging, lastMousePos, rendered, autoPlayTimer

\* Index
orchVars == <<extractedFrames, activeTab>>
\* VideoFrameExtractor: component state; the running handleExtractFrames
\* (pc, the loop variable i, the local array frames) with the hidden video
\* and canvas elements, and the number of object URLs created and not
\* revoked; and the record of the current attempt: the seeks
\* requested, the progress values reported while it runs, the calls of
\* onFramesExtracted, and how it ended.
extractorState == <<isExtracting, progress, videoFile>>
extractorRun == <<pc, i, extractorFrames, video, canvas, objectURLs>>
extractorLog == <<seekLog, reports, callbackCalls, outcome>>
extractorVars == <<extractorState, extractorRun, extractorLog>>
\* InfiniteZoomViewer: the frames prop, the component state, and the
\* auto-play timers: the number of intervals set and not cleared, and whether
\* animationRef.current is the id of one of them.  rendered holds the values
\* of isDragging and lastMousePos in the last render, which are the values
\* the handleMouseMove of that render reads: the render that follows a state
\* update in a press or a release is done before the next event, the one
\* that follows an update in a move or a leave is scheduled and may come
\* after further events.
viewerState == <<currentFrameIndex, isAutoPlaying, zoomLevel, panPosition,
                 isDragging, lastMousePos>>
viewerVars == <<frames, viewerState, rendered, autoPlayTimer>>
vars == <<orchVars, extractorVars, viewerVars>>

Init ==
  /\ extractedFrames = <<>>
  /\ activeTab = "extract"
  /\ isExtracting = FALSE
  /\ progress = Zero
  /\ videoFile = NoFile
  /\ pc = "idle"
  /\ i = 0
  /\ extractorFrames = <<>>
  /\ video = [src |-> NoFile, currentTime |-> Zero, seeking |-> FALSE,
              shown |-> Zero]
  /\ canvas = [width |-> 300, height |-> 150]
  /\ objectURLs = 0
  /\ seekLog = <<>>
  /\ reports = <<>>
  /\ callbackCalls = 0
  /\ outcome = "none"
  /\ frames = <<>>
  /\ currentFrameIndex = 0
  /\ isAutoPlaying = FALSE
  /\ zoomLevel = InitialZoom
  /\ panPosition = Origin
  /\ isDragging = FALSE
  /\ lastMousePos = Origin
  /\ rendered = [isDragging |-> FALSE, lastMousePos |-> Origin]
  /\ autoPlayTimer = [intervals |-> 0, animationRef |-> FALSE]

\* ------------------------------------------------------------------ Index
\* <InfiniteZoomViewer frames={extractedFrames} />
ViewerProps(ef) == ef

\* isAutoPlaying && frames.length > 0
AutoPlayEffect(playing, len) == playing /\ len > 0
\* animationRef.current = setInterval(...)
SetAnimationRef(t) == [intervals |-> t.intervals + 1, animationRef |-> TRUE]
AnimationRefKept(t) == t
\* if (animationRef.current) clearInterval(animationRef.current): clearing
\* an id that is no longer live does nothing
ClearAnimationRef(t) ==
  IF t.animationRef
    THEN [intervals |-> t.intervals - 1, animationRef |-> FALSE]
    ELSE t
\* the cleanup the effect returns: run before the effect runs again and when
\* the component is unmounted
AutoPlayCleanup(t) == ClearAnimationRef(t)
\* The auto-play effect after a render: when isAutoPlaying or frames.length
\* changed, the cleanup of the previous run and then the body.
RunAutoPlayEffect(t, changed, playing, len) ==
  IF ~changed THEN t
  ELSE IF AutoPlayEffect(playing, len)
         THEN SetAnimationRef(AutoPlayCleanup(t))
         ELSE ClearAnimationRef(AutoPlayCleanup(t))

StoredFramesButLast(fr) == SubSeq(fr, 1, Len(fr) - 1)
\* setExtractedFrames(frames)
StoredFrames(fr) == fr
\* setActiveTab("viewer")
TabAfterExtraction == "viewer"

handleFramesExtracted(fr) ==
  /\ extractedFrames' = StoredFrames(fr)
  /\ activeTab' = TabAfterExtraction
  /\ frames' = ViewerProps(extractedFrames')
  /\ autoPlayTimer' =
       RunAutoPlayEffect(autoPlayTimer, Len(frames') # Len(frames),
                         isAutoPlaying, Len(frames'))
  /\ UNCHANGED <<viewerState, rendered>>

\* Tabs onValueChange={setActiveTab}: the user clicks the other tab trigger
TabChange(t) ==
  /\ t # activeTab
  /\ activeTab' = t
  /\ UNCHANGED <<extractedFrames, extractorVars, viewerVars>>

\* ---------------------------------------------------- VideoFrameExtractor
ExtractorShown == activeTab = "extract"

IsVideoTypeAny(type) == TRUE
\* file.type.startsWith('video/')
IsVideoType(type) == type[1] = "video"

\* The file input is opened by the select button, disabled while extracting.
handleFileSelect(f) ==
  /\ ExtractorShown
  /\ ~isExtracting
  /\ videoFile' = IF IsVideoType(FileType(f)) THEN f ELSE videoFile
  /\ UNCHANGED <<isExtracting, progress, extractorRun, extractorLog,
                 orchVars, viewerVars>>

\* interval = duration / frameCount
SampleInterval(duration, frameCount) == RatDivInt(duration, frameCount)
SampleTimeOffByOne(k, interval) == IntMulRat(k + 1, interval)
\* time = i * interval
SampleTime(k, interval) == IntMulRat(k, interval)
ProgressReportBefore(k, frameCount) == Rat(k * 100, frameCount)
\* setProgress(((i + 1) / frameCount) * 100)
ProgressReport(k, frameCount) == Rat((k + 1) * 100, frameCount)
FramesAlwaysUsable(fr) == TRUE
\* frames.length > 0
FramesUsable(fr) == Len(fr) > 0

Min(a, b) == IF a < b THEN a ELSE b
CanvasSizeUnscaled(w, h) == [width |-> w, height |-> h]
\* The canvas size; width and height are integers, the fraction of a value
\* assigned to them is dropped.
CanvasSize(w, h) ==
  IF w > h
    THEN LET cw == Min(maxDimension, w)
         IN  [width |-> cw, height |-> (cw * h) \div w]
    ELSE LET ch == Min(maxDimension, h)
         IN  [width |-> (ch * w) \div h, height |-> ch]

SeekToWithoutSeeking(v, time) == [v EXCEPT !.currentTime = time]
\* video.currentTime = time: the assignment throws on a non-finite value,
\* else the playback position moves at once and the seek is under way.
SeekTo(v, time) == [v EXCEPT !.currentTime = time, !.seeking = TRUE]
SeekedStale(v) == [v EXCEPT !.seeking = FALSE]
\* the seeked event: the picture of the playback position is on display
Seeked(v) == [v EXCEPT !.seeking = FALSE, !.shown = v.currentTime]
\* drawImage + toDataURL: the encoding of the picture now on display
Rasterize(v) == [file |-> v.src, time |-> v.shown]

\* URL.createObjectURL(videoFile): one more object URL is alive
CreateObjectURL(n) == Min(n + 1, MaxURLs)

FinishWithoutFinally(result, fr) ==
  /\ pc' = "idle"
  /\ i' = 0
  /\ extractorFrames' = <<>>
  /\ outcome' = result
  /\ UNCHANGED <<isExtracting, progress, videoFile, objectURLs>>
  /\ IF result = "success"
       THEN /\ callbackCalls' = callbackCalls + 1
            /\ handleFramesExtracted(fr)
       ELSE UNCHANGED <<callbackCalls, orchVars, viewerVars>>

\* The end of handleExtractFrames: the try block's result and the finally
\* block.  result is "success" or the kind of failure.  Neither block
\* revokes the object URL.
Finish(result, fr) ==
  /\ isExtracting' = FALSE
  /\ progress' = Zero
  /\ pc' = "idle"
  /\ i' = 0
  /\ extractorFrames' = <<>>
  /\ outcome' = result
  /\ UNCHANGED <<videoFile, objectURLs>>
  /\ IF result = "success"
       THEN /\ callbackCalls' = callbackCalls + 1
            /\ handleFramesExtracted(fr)
       ELSE UNCHANGED <<callbackCalls, orchVars, viewerVars>>

\* extractFrames returned fr
Returned(fr) ==
  Finish(IF FramesUsable(fr) THEN "success" ELSE "empty result", fr)

\* The extract button: rendered once a file is selected, disabled while
\* extracting.  Runs to the await of the load promise.
handleExtractFrames ==
  /\ ExtractorShown
  /\ videoFile # NoFile
  /\ ~isExtracting
  /\ isExtracting' = TRUE
  /\ progress' = Zero
  /\ objectURLs' = CreateObjectURL(objectURLs)
  /\ video' = [src |-> videoFile, currentTime |-> Zero, seeking |-> FALSE,
               shown |-> Zero]
  /\ pc' = "loading"
  /\ i' = 0
  /\ extractorFrames' = <<>>
  /\ seekLog' = <<>>
  /\ reports' = <<Zero>>
  /\ callbackCalls' = 0
  /\ outcome' = "running"
  /\ UNCHANGED <<videoFile, canvas, orchVars, viewerVars>>

\* video.onerror: the load promise rejects
OnError ==
  /\ pc = "loading"
  /\ ~Loads(video.src)
  /\ Finish("load error", <<>>)
  /\ UNCHANGED <<video, canvas, seekLog, reports>>

\* video.onloadedmetadata: the load promise resolves and extractFrames runs
\* to the await of its first seek.  ctx is what canvas.getContext('2d')
\* returned (null: no context).
OnLoadedMetadata(ctx) ==
  /\ pc = "loading"
  /\ Loads(video.src)
  /\ IF ~ctx
       THEN /\ Returned(<<>>)
            /\ UNCHANGED <<video, canvas, seekLog, reports>>
       ELSE LET interval == SampleInterval(Duration(video.src), FRAME_SIZE)
                time == SampleTime(0, interval)
            IN  /\ canvas' = CanvasSize(VideoWidth(video.src),
                                        VideoHeight(video.src))
                /\ IF RatIsFinite(time)
                     THEN /\ video' = SeekTo(video, time)
                          /\ seekLog' = Append(seekLog, time)
                          /\ pc' = "seeking"
                          /\ UNCHANGED <<i, extractorFrames, extractorState,
                                         reports, callbackCalls, outcome,
                                         objectURLs, orchVars, viewerVars>>
                     ELSE /\ Finish("sampling error", <<>>)
                          /\ UNCHANGED <<video, seekLog, reports>>

\* The seeked event of the seek in progress: onSeeked resolves, the frame is
\* drawn, encoded and pushed, progress is reported, and the loop goes on to
\* its next seek or ends.
OnSeeked ==
  /\ pc = "seeking"
  /\ video.seeking
  /\ LET v == Seeked(video)
         fr == Append(extractorFrames, Rasterize(v))
         interval == SampleInterval(Duration(video.src), FRAME_SIZE)
         time == SampleTime(i + 1, interval)
     IN  /\ reports' = Append(reports, ProgressReport(i, FRAME_SIZE))
         /\ UNCHANGED canvas
         /\ IF i + 1 < FRAME_SIZE
              THEN IF RatIsFinite(time)
                     THEN /\ video' = SeekTo(v, time)
                          /\ seekLog' = Append(seekLog, time)
                          /\ i' = i + 1
                          /\ extractorFrames' = fr
                          /\ progress' = ProgressReport(i, FRAME_SIZE)
                          /\ UNCHANGED <<pc, isExtracting, videoFile,
                                         callbackCalls, outcome, objectURLs,
                                         orchVars, viewerVars>>
                     ELSE /\ video' = v
                          /\ Finish("sampling error", <<>>)
                          /\ UNCHANGED seekLog
              ELSE /\ video' = v
                   /\ Returned(fr)
                   /\ UNCHANGED seekLog

NextExtractor ==
  \/ \E f \in Files : handleFileSelect(f)
  \/ handleExtractFrames
  \/ OnError
  \/ \E ctx \in BOOLEAN : OnLoadedMetadata(ctx)
  \/ OnSeeked
  \/ \E t \in Tabs : TabChange(t)

\* ----------------------------------------------------- InfiniteZoomViewer
\* the viewer's tab is the active one: its window and timer callbacks run
ViewerShown == activeTab = "viewer"
\* ... and frames is non-empty: the controls and the viewer surface are
\* rendered (with no frames the component returns the placeholder card)
ControlsShown == ViewerShown /\ Len(frames) # 0
Placeholder == Len(frames) = 0

\* Math.max(0, Math.min(frames.length - 1, prev + delta))
WheelIndex(prev, delta, len) == JsMax(0, JsMin(len - 1, JsAdd(prev, delta)))
\* (prev - 1 + frames.length) % frames.length
ArrowLeftIndex(prev, len) == JsMod(JsAdd(JsAdd(prev, -1), len), len)
\* (prev + 1) % frames.length
ArrowRightIndex(prev, len) == JsMod(JsAdd(prev, 1), len)
\* the interval callback: (prev + 1) % frames.length
TickIndex(prev, len) == JsMod(JsAdd(prev, 1), len)
ResetValuesKeepPlaying ==
  [zoomLevel |-> InitialZoom, panPosition |-> Origin,
   currentFrameIndex |-> 0, isAutoPlaying |-> isAutoPlaying]
\* the values reset() sets
ResetValues ==
  [zoomLevel |-> InitialZoom, panPosition |-> Origin,
   currentFrameIndex |-> 0, isAutoPlaying |-> FALSE]

\* setIsAutoPlaying(value), the re-render and the auto-play effect
SetIsAutoPlaying(value) ==
  /\ isAutoPlaying' = value
  /\ autoPlayTimer' =
       RunAutoPlayEffect(autoPlayTimer, value # isAutoPlaying, value,
                         Len(frames))

\* e.deltaY > 0 ? 1 : -1
WheelDelta(deltaY) == IF deltaY > 0 THEN 1 ELSE -1

handleWheelZooming(deltaY) ==
  /\ ControlsShown
  /\ currentFrameIndex' =
       WheelIndex(currentFrameIndex, WheelDelta(deltaY), Len(frames))
  /\ zoomLevel' = InitialZoom
  /\ UNCHANGED <<isAutoPlaying, panPosition, isDragging, lastMousePos,
                 frames, rendered, autoPlayTimer, orchVars, extractorVars>>
\* the wheel listener of the viewer surface
handleWheel(deltaY) ==
  /\ ControlsShown
  /\ currentFrameIndex' =
       WheelIndex(currentFrameIndex, WheelDelta(deltaY), Len(frames))
  /\ UNCHANGED <<isAutoPlaying, zoomLevel, panPosition, isDragging,
                 lastMousePos, frames, rendered, autoPlayTimer, orchVars,
                 extractorVars>>

\* onMouseDown of the viewer surface
handleMouseDown(p) ==
  /\ ControlsShown
  /\ isDragging' = TRUE
  /\ lastMousePos' = p
  /\ rendered' = [isDragging |-> TRUE, lastMousePos |-> p]
  /\ UNCHANGED <<currentFrameIndex, isAutoPlaying, zoomLevel, panPosition,
                 frames, autoPlayTimer, orchVars, extractorVars>>

InPanRange(p) ==
  /\ p.x \in (0 - MaxPan)..MaxPan
  /\ p.y \in (0 - MaxPan)..MaxPan

\* prev + (e.client - lastMousePos)
Panned(prev, from, to) ==
  [x |-> prev.x + (to.x - from.x), y |-> prev.y + (to.y - from.y)]

\* onMouseMove of the viewer surface: isDragging and lastMousePos are read
\* from the handler's render, the updater adds the deltas to the
\* panPosition of the state
handleMouseMove(p) ==
  /\ ControlsShown
  /\ IF rendered.isDragging
       THEN LET to == Panned(panPosition, rendered.lastMousePos, p)
            IN  /\ InPanRange(to)
                /\ panPosition' = to
                /\ lastMousePos' = p
       ELSE UNCHANGED <<panPosition, lastMousePos>>
  /\ UNCHANGED <<currentFrameIndex, isAutoPlaying, zoomLevel, isDragging,
                 frames, rendered, autoPlayTimer, orchVars, extractorVars>>

handleMouseUpKeepsDragging ==
  UNCHANGED <<isDragging, currentFrameIndex, isAutoPlaying, zoomLevel,
              panPosition, lastMousePos, frames, autoPlayTimer, orchVars,
              extractorVars>>
\* the handler of onMouseUp and of onMouseLeave
handleMouseUp ==
  /\ isDragging' = FALSE
  /\ UNCHANGED <<currentFrameIndex, isAutoPlaying, zoomLevel, panPosition,
                 lastMousePos, frames, autoPlayTimer, orchVars,
                 extractorVars>>

\* onMouseUp of the viewer surface
onMouseUp ==
  /\ ControlsShown
  /\ handleMouseUp
  /\ rendered' = [rendered EXCEPT !.isDragging = FALSE]

\* onMouseLeave of the viewer surface
onMouseLeave ==
  /\ ControlsShown
  /\ handleMouseUp
  /\ UNCHANGED rendered

\* the scheduled render of the viewer
Render ==
  /\ rendered # [isDragging |-> isDragging, lastMousePos |-> lastMousePos]
  /\ rendered' = [isDragging |-> isDragging, lastMousePos |-> lastMousePos]
  /\ UNCHANGED <<viewerState, frames, autoPlayTimer, orchVars,
                 extractorVars>>

reset ==
  /\ zoomLevel' = ResetValues.zoomLevel
  /\ panPosition' = ResetValues.panPosition
  /\ currentFrameIndex' = ResetValues.currentFrameIndex
  /\ SetIsAutoPlaying(ResetValues.isAutoPlaying)
  /\ UNCHANGED <<isDragging, lastMousePos, frames, rendered, orchVars,
                 extractorVars>>

\* the keydown listener of the window
handleKeyPress(key) ==
  /\ ViewerShown
  /\ CASE key = "ArrowLeft" ->
            /\ currentFrameIndex' =
                 ArrowLeftIndex(currentFrameIndex, Len(frames))
            /\ UNCHANGED <<isAutoPlaying, zoomLevel, panPosition, isDragging,
                           lastMousePos, frames, rendered, autoPlayTimer, orchVars,
                           extractorVars>>
       [] key = "ArrowRight" ->
            /\ currentFrameIndex' =
                 ArrowRightIndex(currentFrameIndex, Len(frames))
            /\ UNCHANGED <<isAutoPlaying, zoomLevel, panPosition, isDragging,
                           lastMousePos, frames, rendered, autoPlayTimer, orchVars,
                           extractorVars>>
       [] key = " " ->
            /\ SetIsAutoPlaying(~isAutoPlaying)
            /\ UNCHANGED <<currentFrameIndex, zoomLevel, panPosition,
                           isDragging, lastMousePos, frames, rendered, orchVars,
                           extractorVars>>
       [] key = "r" -> reset
       [] OTHER -> UNCHANGED vars

\* the play/pause button
toggleAutoPlay ==
  /\ ControlsShown
  /\ SetIsAutoPlaying(~isAutoPlaying)
  /\ UNCHANGED <<currentFrameIndex, zoomLevel, panPosition, isDragging,
                 lastMousePos, frames, rendered, orchVars, extractorVars>>

\* the reset button
ResetButton ==
  /\ ControlsShown
  /\ reset

\* the frame slider: value in 0..frames.length - 1, step 1
FrameSlider(value) ==
  /\ ControlsShown
  /\ value \in 0..(Len(frames) - 1)
  /\ currentFrameIndex' = value
  /\ UNCHANGED <<isAutoPlaying, zoomLevel, panPosition, isDragging,
                 lastMousePos, frames, rendered, autoPlayTimer, orchVars,
                 extractorVars>>

\* the zoom slider: value in 0.5..5, step 0.1
ZoomSlider(value) ==
  /\ ControlsShown
  /\ value \in SliderMin..SliderMax
  /\ zoomLevel' = value
  /\ UNCHANGED <<currentFrameIndex, isAutoPlaying, panPosition, isDragging,
                 lastMousePos, frames, rendered, autoPlayTimer, orchVars,
                 extractorVars>>

\* the interval callback of the auto-play effect
AutoPlayTick ==
  /\ ViewerShown
  /\ autoPlayTimer.intervals > 0
  /\ currentFrameIndex' = TickIndex(currentFrameIndex, Len(frames))
  /\ UNCHANGED <<isAutoPlaying, zoomLevel, panPosition, isDragging,
                 lastMousePos, frames, rendered, autoPlayTimer, orchVars,
                 extractorVars>>

NextViewer ==
  \/ \E d \in WheelDeltas : handleWheel(d)
  \/ \E p \in Points : handleMouseDown(p)
  \/ \E p \in Points : handleMouseMove(p)
  \/ onMouseUp
  \/ onMouseLeave
  \/ Render
  \/ \E key \in Keys : handleKeyPress(key)
  \/ toggleAutoPlay
  \/ ResetButton
  \/ \E value \in 0..(FRAME_SIZE - 1) : FrameSlider(value)
  \/ \E value \in ZoomStops : ZoomSlider(value)
  \/ AutoPlayTick

Next == NextExtractor \/ NextViewer

Spec == Init /\ [][Next]_vars

\* The platform delivers the event of every load and of every seek it was
\* asked for: loadedmetadata or error after video.src is set, seeked after
\* video.currentTime is set.
PlatformSignals ==
  /\ WF_vars(OnError)
  /\ WF_vars(\E ctx \in BOOLEAN : OnLoadedMetadata(ctx))
  /\ WF_vars(OnSeeked)

\* The extractor and the orchestrator on their own, the viewer left alone (no
\* step of the viewer changes a variable of theirs), with the platform's
\* signals.
ExtractorSpec == Init /\ [][NextExtractor]_vars /\ PlatformSignals

\* The viewer in full, fed by extractions from videos that load and have a
\* finite duration: every behaviour of ViewerSpec is a behaviour of Spec.
PlayableFiles == {"clip", "tall"}
NextViewerSession ==
  \/ \E f \in PlayableFiles : handleFileSelect(f)
  \/ handleExtractFrames
  \/ \E ctx \in BOOLEAN : OnLoadedMetadata(ctx)
  \/ OnSeeked
  \/ \E t \in Tabs : TabChange(t)
  \/ NextViewer

ViewerSpec == Init /\ [][NextViewerSession]_vars

\* ------------------------------------------------------------- properties
\* comparison of finite fractions (denominators are positive)
RatEq(a, b) == RatIsFinite(a) /\ RatIsFinite(b) /\ a.num * b.den = b.num * a.den
RatLt(a, b) == RatIsFinite(a) /\ RatIsFinite(b) /\ a.num * b.den < b.num * a.den
RatLe(a, b) == RatIsFinite(a) /\ RatIsFinite(b) /\ a.num * b.den <= b.num * a.den
\* i * D / n, as a fraction
Fraction(k, D, n) == Rat(k * D.num, D.den * n)
\* D is a finite duration greater than 0
FinitePositive(D) == RatIsFinite(D) /\ D.num > 0
Hundred == Rat(100, 1)
Failures == {"load error", "sampling error", "empty result"}

\* C1: whenever the viewer holds a non-empty frame sequence,
\* 0 <= currentFrameIndex < number of frames and 0.5 <= zoomLevel <= 5.0.
C1_IndexAndZoomInRange ==
  Len(frames) > 0 =>
    /\ currentFrameIndex \in 0..(Len(frames) - 1)
    /\ zoomLevel \in SliderMin..SliderMax

\* C2: while the frame sequence is empty, no step changes the viewer's
\* state (index, auto-play, zoom, pan, drag flag, last pointer position),
\* and the index never becomes NaN.
C2_EmptyInputsAreNoOps ==
  [][(Placeholder /\ Placeholder') =>
       (UNCHANGED viewerState /\ currentFrameIndex' # NaN)]_vars

\* C3: for a video of finite duration D > 0, the k-th seek of an attempt
\* (k = 1, 2, ...) goes to (k-1)*D/n, the seek times strictly increase and
\* all lie below D; a successful attempt has issued exactly n seeks and
\* hands over exactly n frames, the k-th taken from this video at
\* (k-1)*D/n.
C3_SampleTimes ==
  LET D == Duration(video.src)
      n == FRAME_SIZE
  IN  FinitePositive(D) =>
        /\ Len(seekLog) <= n
        /\ \A k \in 1..Len(seekLog) :
             /\ RatEq(seekLog[k], Fraction(k - 1, D, n))
             /\ RatLt(seekLog[k], D)
             /\ k > 1 => RatLt(seekLog[k - 1], seekLog[k])
        /\ outcome = "success" =>
             /\ Len(seekLog) = n
             /\ Len(extractedFrames) = n
             /\ \A k \in 1..Len(extractedFrames) :
                  /\ extractedFrames[k].file = video.src
                  /\ RatEq(extractedFrames[k].time, Fraction(k - 1, D, n))

C3_Witness ==
  /\ outcome = "success"
  /\ video.src = "clip"
  /\ Len(extractedFrames) = FRAME_SIZE
  /\ RatEq(extractedFrames[FRAME_SIZE].time,
           Fraction(FRAME_SIZE - 1, Rat(10, 1), FRAME_SIZE))

\* C4: onFramesExtracted is called at most once per attempt, and only by
\* the step that completes the last sample, with the complete sequence of
\* n frames; the orchestrator's frames change in no other step; a step that
\* ends an attempt in failure calls nothing and leaves extractedFrames and
\* the active tab unchanged.
C4_OnlyCompleteResults ==
  [][/\ callbackCalls' <= 1
     /\ (callbackCalls' = callbackCalls + 1) =>
          /\ pc = "seeking"
          /\ i = FRAME_SIZE - 1
          /\ Len(seekLog) = FRAME_SIZE
          /\ Len(extractedFrames') = FRAME_SIZE
          /\ SubSeq(extractedFrames', 1, FRAME_SIZE - 1) = extractorFrames
          /\ outcome' = "success"
     /\ (extractedFrames' # extractedFrames) =>
          (callbackCalls' = callbackCalls + 1)
     /\ (isExtracting /\ ~isExtracting' /\ outcome' \in Failures) =>
          /\ UNCHANGED <<extractedFrames, activeTab>>
          /\ callbackCalls' = 0
    ]_vars

C4_Witness ==
  /\ outcome \in Failures
  /\ ~isExtracting
  /\ Len(extractedFrames) = FRAME_SIZE
  /\ activeTab = "extract"

\* C5: an extraction of a video whose duration is not a finite positive
\* number never samples a frame, never calls onFramesExtracted and does not
\* end in success.
C5_BadDurationFails ==
  (video.src # NoFile /\ ~FinitePositive(Duration(video.src))) =>
    /\ pc \in {"loading", "idle"}
    /\ extractorFrames = <<>>
    /\ callbackCalls = 0
    /\ outcome # "success"

\* C6: the progress reports of one extraction start with 0; the report
\* after the k-th frame is k/n*100; successive reports never decrease and
\* stay within [0, 100]; while the extraction runs the progress value is
\* the last report; when the sampling loop has completed, its last report
\* is 100.
C6_ProgressReports ==
  /\ outcome = "none" => reports = <<>>
  /\ outcome # "none" =>
       /\ Len(reports) >= 1
       /\ RatEq(reports[1], Zero)
       /\ \A k \in 2..Len(reports) :
            /\ RatEq(reports[k], Rat((k - 1) * 100, FRAME_SIZE))
            /\ RatLe(reports[k - 1], reports[k])
       /\ \A k \in 1..Len(reports) :
            RatLe(Zero, reports[k]) /\ RatLe(reports[k], Hundred)
  /\ isExtracting =>
       /\ RatEq(progress, reports[Len(reports)])
       /\ Len(reports) = Len(extractorFrames) + 1
  /\ outcome = "success" =>
       /\ Len(reports) = FRAME_SIZE + 1
       /\ RatEq(reports[Len(reports)], Hundred)

C6_Witness ==
  /\ outcome = "success"
  /\ Len(reports) = FRAME_SIZE + 1
  /\ RatEq(reports[2], Rat(100, FRAME_SIZE))

\* the least and the greatest of two integers, and x mod L taken in
\* [0, L-1]
Least(a, b) == IF a < b THEN a ELSE b
Greatest(a, b) == IF a > b THEN a ELSE b
Modulo(x, L) == x % L
IsIndex(x, L) == x # NaN /\ x \in 0..(L - 1)

\* what C7 says of a wheel step with deltaY = d
WheelClamped(d) ==
  LET L == Len(frames)
      idx == currentFrameIndex
  IN  /\ currentFrameIndex' # NaN
      /\ d > 0 => currentFrameIndex' = Least(idx + 1, L - 1)
      /\ d < 0 => currentFrameIndex' = Greatest(idx - 1, 0)
      /\ (d > 0 /\ idx = L - 1) => currentFrameIndex' = L - 1
      /\ (d < 0 /\ idx = 0) => currentFrameIndex' = 0

\* C7: with a non-empty sequence of length L, a wheel event scrolling down
\* sets currentFrameIndex to the number min(currentFrameIndex + 1, L - 1)
\* and one scrolling up sets it to the number max(currentFrameIndex - 1, 0);
\* at L - 1 a downward scroll and at 0 an upward scroll leave the index
\* where it is.  (In no reachable state can a wheel event do otherwise.)
C7_WheelClamps ==
  \A d \in WheelDeltas :
    Len(frames) > 0 => ~ENABLED (handleWheel(d) /\ ~WheelClamped(d))

\* C7, from an index that is a number in 0..L-1: the same statement
C7_WheelClampsFromIndex ==
  \A d \in WheelDeltas :
    (Len(frames) > 0 /\ IsIndex(currentFrameIndex, Len(frames))) =>
      ~ENABLED (handleWheel(d) /\ ~WheelClamped(d))

\* what C8 says of a step forward (ArrowRight, auto-play tick) and of a step
\* back (ArrowLeft)
WrappedForward ==
  LET L == Len(frames)
      idx == currentFrameIndex
  IN  /\ currentFrameIndex' # NaN
      /\ currentFrameIndex' = Modulo(idx + 1, L)
      /\ idx = L - 1 => currentFrameIndex' = 0
WrappedBack ==
  LET L == Len(frames)
      idx == currentFrameIndex
  IN  /\ currentFrameIndex' # NaN
      /\ currentFrameIndex' = Modulo(idx - 1, L)
      /\ idx = 0 => currentFrameIndex' = L - 1

\* C8: with a non-empty sequence of length L, ArrowRight and each auto-play
\* tick set currentFrameIndex to the number (currentFrameIndex + 1) mod L
\* and ArrowLeft sets it to the number (currentFrameIndex - 1) mod L taken
\* in [0, L-1]; ArrowRight at L - 1 yields 0 and ArrowLeft at 0 yields
\* L - 1.  (In no reachable state can one of these steps do otherwise.)
C8_KeysAndTicksWrap ==
  Len(frames) > 0 =>
    /\ ~ENABLED (handleKeyPress("ArrowRight") /\ ~WrappedForward)
    /\ ~ENABLED (AutoPlayTick /\ ~WrappedForward)
    /\ ~ENABLED (handleKeyPress("ArrowLeft") /\ ~WrappedBack)

\* C8, from an index that is a number in 0..L-1: the same statement
C8_KeysAndTicksWrapFromIndex ==
  (Len(frames) > 0 /\ IsIndex(currentFrameIndex, Len(frames))) =>
    /\ ~ENABLED (handleKeyPress("ArrowRight") /\ ~WrappedForward)
    /\ ~ENABLED (AutoPlayTick /\ ~WrappedForward)
    /\ ~ENABLED (handleKeyPress("ArrowLeft") /\ ~WrappedBack)

\* C9: a reset (the 'r' key or the reset button), from any state, yields
\* zoomLevel = 1, panPosition = (0, 0), currentFrameIndex = 0 and
\* isAutoPlaying = false.
C9_ResetYieldsDefaults ==
  [][(handleKeyPress("r") \/ ResetButton) =>
       /\ zoomLevel' = 10
       /\ panPosition' = [x |-> 0, y |-> 0]
       /\ currentFrameIndex' = 0
       /\ isAutoPlaying' = FALSE
    ]_vars

\* a state that differs from the defaults in every field, in the middle of
\* a drag, from which the reset button leads to the defaults
C9_Witness ==
  /\ zoomLevel # 10
  /\ panPosition # Origin
  /\ currentFrameIndex \notin {0, NaN}
  /\ isAutoPlaying
  /\ isDragging
  /\ ENABLED (ResetButton /\ zoomLevel' = 10 /\ panPosition' = Origin
              /\ currentFrameIndex' = 0 /\ ~isAutoPlaying')

\* C10: the step that completes an extraction successfully sets
\* extractedFrames to the extractor's output (the frames sampled so far
\* followed by the last one) and makes "viewer" the active tab; the
\* viewer's frames are at all times the orchestrator's extractedFrames.
C10_FramesHandedToViewer ==
  [][/\ (outcome # "success" /\ outcome' = "success") =>
          /\ extractedFrames' =
               Append(extractorFrames,
                      [file |-> video.src, time |-> video.currentTime])
          /\ activeTab' = "viewer"
     /\ frames' = extractedFrames'
    ]_vars

C10_Witness ==
  /\ outcome = "success"
  /\ activeTab = "viewer"
  /\ Len(extractedFrames) = FRAME_SIZE
  /\ frames = extractedFrames

\* C11: a file whose MIME type does not start with 'video/' is never the
\* selected video file nor the source of the video element, and selecting
\* it changes nothing: the selected file, isExtracting, progress, the
\* orchestrator's frames and everything else stay as they are.
C11_NonVideoRejected ==
  \A f \in Files :
    FileType(f)[1] # "video" =>
      /\ videoFile # f
      /\ video.src # f
      /\ ~ENABLED (handleFileSelect(f) /\ ~UNCHANGED vars)

\* a video is selected, the file input is usable, and a non-video file can
\* be picked
C11_Witness ==
  /\ videoFile = "clip"
  /\ outcome = "success"
  /\ FileType("notes")[1] # "video"
  /\ ENABLED handleFileSelect("notes")

C13_TimerCleared ==
  /\ [](/\ autoPlayTimer.intervals <= 1
        /\ autoPlayTimer.intervals = 1 <=>
             (isAutoPlaying /\ Len(frames) > 0)
        /\ autoPlayTimer.animationRef <=> autoPlayTimer.intervals = 1
        /\ ENABLED AutoPlayTick => isAutoPlaying
        /\ AutoPlayCleanup(autoPlayTimer).intervals = 0)
  /\ [][~isAutoPlaying' => autoPlayTimer'.intervals = 0]_vars

\* auto-play runs, a tick can fire, and the play/pause button would clear
\* the interval
C13_Witness ==
  /\ isAutoPlaying
  /\ autoPlayTimer.intervals = 1
  /\ ENABLED AutoPlayTick
  /\ ENABLED (toggleAutoPlay /\ autoPlayTimer'.intervals = 0)

\* C14: a pointer move while isDragging is true adds (current position -
\* last recorded position) to panPosition and records the current position,
\* so that a gesture from p0 to pn changes panPosition by pn - p0; a move
\* while isDragging is false leaves panPosition unchanged.
C14_DragPansByDisplacement ==
  [][\A p \in Points :
       handleMouseMove(p) =>
         IF isDragging
           THEN /\ panPosition'.x = panPosition.x + (p.x - lastMousePos.x)
                /\ panPosition'.y = panPosition.y + (p.y - lastMousePos.y)
                /\ lastMousePos' = p
           ELSE panPosition' = panPosition
    ]_vars

\* C14, for a move whose handler is that of a render made after the last
\* state update: the same statement
C14_DragPansByDisplacementWhenRendered ==
  [][\A p \in Points :
       (handleMouseMove(p)
          /\ rendered = [isDragging |-> isDragging,
                         lastMousePos |-> lastMousePos]) =>
         IF isDragging
           THEN /\ panPosition'.x = panPosition.x + (p.x - lastMousePos.x)
                /\ panPosition'.y = panPosition.y + (p.y - lastMousePos.y)
                /\ lastMousePos' = p
           ELSE panPosition' = panPosition
    ]_vars

\* C15: every pointer release and every pointer leave of the surface ends
\* with isDragging false, and isDragging turns true only in a pointer press:
\* isDragging is true only between a press and the next release or leave.
C15_DragEnds ==
  /\ [](/\ ~ENABLED (onMouseUp /\ isDragging')
        /\ ~ENABLED (onMouseLeave /\ isDragging'))
  /\ [][(~isDragging /\ isDragging') =>
          \E p \in Points : handleMouseDown(p)]_vars
  /\ [][(isDragging /\ ~isDragging') => (onMouseUp \/ onMouseLeave)]_vars

\* in the middle of a drag that has panned the image, a leave would end it
C15_Witness ==
  /\ isDragging
  /\ panPosition # Origin
  /\ ENABLED (onMouseLeave /\ ~isDragging')
  /\ ENABLED (onMouseUp /\ ~isDragging')

\* C16: while the sampling loop waits for a seek, no step other than the
\* seeked event ends the wait: isExtracting stays true, the attempt stays
\* unfinished, nothing is delivered and no failure is recorded (there is no
\* timeout).  And when the platform delivers the event of every load and of
\* every seek, every extraction that is running eventually ends, in success
\* or in failure.
C16_StuckSeekHangs ==
  /\ [][(pc = "seeking" /\ ~OnSeeked) =>
          /\ pc' = "seeking"
          /\ isExtracting'
          /\ outcome' = "running"
          /\ callbackCalls' = 0
          /\ UNCHANGED <<extractedFrames, extractorFrames, progress, video>>
       ]_vars
  /\ (isExtracting ~> (~isExtracting /\ outcome \in Failures \cup {"success"}))

\* an extraction waits for its second seek while the user has gone to the
\* viewer tab
C16_Witness ==
  /\ pc = "seeking"
  /\ isExtracting
  /\ video.seeking
  /\ Len(seekLog) = 2
  /\ activeTab = "viewer"

\* C17: once an extraction attempt has completed or failed, no object URL
\* created for a selected file is left unreleased, also after repeated
\* extractions.
C17_ObjectURLReleased ==
  outcome \in Failures \cup {"success"} => objectURLs = 0

\* C18: the canvas is sized in the step that ends the load, before the first
\* seek, and no step of the sampling loop changes it; while frames are
\* sampled neither dimension exceeds 800, the longer edge is the smaller of
\* 800 and the longer natural edge of the video, and width : height is the
\* natural ratio up to the rounding of the shorter edge to an integer.
C18_CanvasSizedOnce ==
  /\ [](pc = "seeking" =>
          LET w == VideoWidth(video.src)
              h == VideoHeight(video.src)
              skew == canvas.width * h - canvas.height * w
          IN  /\ canvas.width <= maxDimension
              /\ canvas.height <= maxDimension
              /\ Greatest(canvas.width, canvas.height) =
                   Least(maxDimension, Greatest(w, h))
              /\ skew < Greatest(w, h)
              /\ -skew < Greatest(w, h)
              /\ w > h => canvas.width > canvas.height
              /\ w < h => canvas.width < canvas.height
              /\ w = h => canvas.width = canvas.height)
  /\ [][/\ pc = "seeking" => canvas' = canvas
        /\ canvas' # canvas => pc = "loading" /\ pc' # "loading"]_vars

\* frames of a landscape, of a portrait and of a square video are being
\* sampled: scaled down to 800 x 450, to 450 x 800, and kept at 640 x 640
C18_Witness ==
  /\ pc = "seeking"
  /\ i > 0
  /\ \/ video.src = "clip" /\ canvas = [width |-> 800, height |-> 450]
     \/ video.src = "tall" /\ canvas = [width |-> 450, height |-> 800]
     \/ video.src = "empty" /\ canvas = [width |-> 640, height |-> 640]

\* C19: isExtracting is true exactly while an attempt runs: it becomes true
\* only in the step that starts an extraction and false only in the step
\* that ends one, with progress then 0.  After every ended attempt, whether
\* it succeeded, failed to load, threw while sampling or yielded no frames,
\* isExtracting is false and progress is 0, and the extract button starts a
\* new extraction when the extractor is on display.
C19_BusyFlagReset ==
  /\ [](/\ isExtracting <=> outcome = "running"
        /\ isExtracting <=> pc # "idle"
        /\ outcome \in Failures \cup {"success"} =>
             /\ ~isExtracting
             /\ progress = Zero
             /\ ExtractorShown =>
                  ENABLED (handleExtractFrames /\ isExtracting'
                             /\ outcome' = "running"))
  /\ [][/\ (~isExtracting /\ isExtracting') =>
             (pc = "idle" /\ pc' = "loading" /\ progress' = Zero)
        /\ (isExtracting /\ ~isExtracting') =>
             /\ outcome' \in Failures \cup {"success"}
             /\ progress' = Zero]_vars

\* an attempt that reported progress up to 100 has ended, the user is back
\* on the extractor, and the extract button would start another attempt
C19_Witness ==
  /\ ~isExtracting
  /\ progress = Zero
  /\ outcome = "success"
  /\ Len(reports) = FRAME_SIZE + 1
  /\ ExtractorShown
  /\ ENABLED (handleExtractFrames /\ isExtracting')

\* C20: every viewer input changes its own part of the state only.  A wheel
\* step, an arrow key, the position slider and an auto-play tick leave
\* zoomLevel, panPosition and isAutoPlaying unchanged; the zoom slider
\* changes nothing but zoomLevel; a pointer press, move, release or leave
\* changes nothing but isDragging, lastMousePos and panPosition; the space
\* key changes nothing but isAutoPlaying; and no step of the viewer changes
\* the frame sequence or a variable of the extractor, also while an
\* extraction runs behind the viewer.
C20_InputsChangeOwnState ==
  [][/\ \/ UNCHANGED <<zoomLevel, panPosition, isAutoPlaying>>
        \/ ~(\/ \E d \in WheelDeltas : handleWheel(d)
             \/ handleKeyPress("ArrowLeft")
             \/ handleKeyPress("ArrowRight")
             \/ \E value \in 0..(FRAME_SIZE - 1) : FrameSlider(value)
             \/ AutoPlayTick)
     /\ \/ UNCHANGED <<currentFrameIndex, isAutoPlaying, panPosition,
                       isDragging, lastMousePos>>
        \/ ~(\E value \in ZoomStops : ZoomSlider(value))
     /\ \/ UNCHANGED <<currentFrameIndex, zoomLevel, isAutoPlaying>>
        \/ ~(\/ \E p \in Points : handleMouseDown(p)
             \/ \E p \in Points : handleMouseMove(p)
             \/ onMouseUp
             \/ onMouseLeave)
     /\ \/ UNCHANGED <<currentFrameIndex, zoomLevel, panPosition,
                       isDragging, lastMousePos>>
        \/ ~handleKeyPress(" ")
     /\ \/ UNCHANGED <<frames, extractedFrames, extractorVars>>
        \/ ~NextViewer
    ]_vars

\* every part of the viewer state is off its default (a later frame, zoomed,
\* panned, playing, dragging) and a wheel step, the zoom slider and a move
\* would each change their own part
C20_Witness ==
  /\ ControlsShown
  /\ currentFrameIndex = 1
  /\ zoomLevel = SliderMax
  /\ panPosition # Origin
  /\ isAutoPlaying
  /\ isDragging
  /\ ENABLED (handleWheel(1) /\ currentFrameIndex' # currentFrameIndex)
  /\ ENABLED (ZoomSlider(SliderMin) /\ zoomLevel' # zoomLevel)
  /\ ENABLED (\E p \in Points : handleMouseMove(p) /\ panPosition' # panPosition)
  /\ isExtracting

====
